---- MODULE Spec2Model ----
(***************************************************************************)
(* A model of abcross: the release resolver, the manifest fetch, the       *)
(* checksummed download with its cache, the extraction and the deploy      *)
(* orchestration (src/abcross/distribution.py, src/abcross/tar.py).        *)
(*                                                                         *)
(* Strings whose characters the code inspects (URLs, release dates) are    *)
(* sequences of one-character strings; enumeration members and exception   *)
(* names are TLA+ strings.                                                 *)
(***************************************************************************)
EXTENDS Integers, Sequences, FiniteSets, TLC

VARIABLES
    \* ---- get_release_tarball_info, called on its own
    rManifest, rArch, rVariant, rResult,
    \* ---- get_manifest, called on its own
    mCalls, mMirror, mResult, mFetches,
    \* ---- download_tarball / get_tarball, called on their own
    fCalls, fPath, fPrev, fCall, fResult, fNet,
    \* ---- extract_tarball, called on its own
    eCalls, eTarball, eDir, eCall, eResult,
    \* ---- the host, the Sysroot's architecture and Sysroot.containerize
    hMachine, hBinfmt, sArch, cCalls, cCall, cResult,
    \* ---- Sysroot.unpack, one call after the other on one Sysroot
    uRuns, uPc, uArgs, uAdminDir, uTemp, uTempDirs, uFiles, uDebs, uUnpacked,
    uRet, uResult, uWarnings, uLog,
    \* ---- the filesystem and the deploy runs
    sysroot, cacheDir, files, tmpDirs,
    runs, pc, args, runManifest, dRet, tarball, downloadPath, localTarball,
    status, exc, log

resolveVars == <<rManifest, rArch, rVariant, rResult>>
manifestVars == <<mCalls, mMirror, mResult, mFetches>>
fetchVars == <<fCalls, fPath, fPrev, fCall, fResult, fNet>>
deployVars == <<sysroot, cacheDir, files, tmpDirs,
                runs, pc, args, runManifest, dRet, tarball, downloadPath, localTarball,
                status, exc, log>>
extractVars == <<eCalls, eTarball, eDir, eCall, eResult>>
containerVars == <<hMachine, hBinfmt, sArch, cCalls, cCall, cResult>>
unpackVars == <<uRuns, uPc, uArgs, uAdminDir, uTemp, uTempDirs, uFiles, uDebs, uUnpacked,
                uRet, uResult, uWarnings, uLog>>
sysrootVars == <<containerVars, unpackVars>>
vars == <<resolveVars, manifestVars, fetchVars, extractVars, deployVars, sysrootVars>>

---------------------------------------------------------------------------
(* Bounds of the model *)

\* the longest variants list of a manifest drawn for the resolver
MaxGroups == 2
\* the number of chunks of the published tarball
MaxChunks == 2
\* the number of consecutive calls / deploy runs explored
MaxCalls == 3
MaxRuns == 2

---------------------------------------------------------------------------
(* Strings *)

None == [kind |-> "None"]
Raise(e, m) == [kind |-> "raise", exc |-> e, msg |-> m]
Ok(v) == [kind |-> "ok", value |-> v]

Digits == <<"0", "1", "2", "3", "4", "5", "6", "7", "8", "9">>
UpperCase == <<"F", "H", "I", "L", "P", "S", "T">>
LowerCase == <<"f", "h", "i", "l", "p", "s", "t">>
OtherLetters == {"a", "c", "d", "e", "j", "m", "n", "o", "r", "u"}

IndexIn(c, s) == CHOOSE i \in 1..Len(s) : s[i] = c
InSeq(c, s) == \E i \in 1..Len(s) : s[i] = c

\* str.lower() on one character
Lower(c) == IF InSeq(c, UpperCase) THEN LowerCase[IndexIn(c, UpperCase)] ELSE c
LowerStr(s) == [i \in 1..Len(s) |-> Lower(s[i])]

IsAlpha(c) == InSeq(c, UpperCase) \/ InSeq(c, LowerCase) \/ c \in OtherLetters
\* urllib.parse.scheme_chars: letters, digits and "+-."
IsSchemeChar(c) == IsAlpha(c) \/ InSeq(c, Digits) \/ c \in {"+", "-", "."}

\* str.find(c): the first index holding c, 0 when there is none
Find(c, s) == IF InSeq(c, s)
              THEN CHOOSE i \in 1..Len(s) : s[i] = c /\ \A j \in 1..(i - 1) : s[j] # c
              ELSE 0

\* the order of Python's str comparison on digit strings: by code point,
\* a proper prefix first
CodePoint(c) == IndexIn(c, Digits)
RECURSIVE StrLess(_, _)
StrLess(a, b) ==
    IF Len(b) = 0 THEN FALSE
    ELSE IF Len(a) = 0 THEN TRUE
    ELSE IF CodePoint(Head(a)) # CodePoint(Head(b))
         THEN CodePoint(Head(a)) < CodePoint(Head(b))
    ELSE StrLess(Tail(a), Tail(b))

---------------------------------------------------------------------------
(* The catalog: Architecture (common.py) and Variant (distribution.py) *)

ArchitectureValues ==
    {"amd64", "arm64", "loongson3", "powerpc", "ppc64el", "riscv64", "mips64r6el"}

VariantValues ==
    {"Base", "BuildKit", "Server", "Desktop", "Desktop (with NVIDIA driver)", "X11"}

\* Enum(value): the member, or ValueError for a value the enumeration lacks
Architecture(value) ==
    IF value \in ArchitectureValues THEN Ok(value)
    ELSE Raise("ValueError", "is not a valid Architecture")

Variant(value) ==
    IF value \in VariantValues THEN Ok(value)
    ELSE Raise("ValueError", "is not a valid Variant")

---------------------------------------------------------------------------
(* get_release_tarball_info *)

\* A manifest is [hasVariants, variants]; a variants entry is
\* [name, hasTarballs, tarballs]; a tarball is [arch, date, path, sha256sum].

\* lines 62-70: the tarballs of every group named v, in manifest order
RECURSIVE TarballsPerVariant(_, _)
TarballsPerVariant(variants_list, v) ==
    IF variants_list = <<>> THEN <<>>
    ELSE LET variant_releases == Head(variants_list)
             own == IF variant_releases.name = v /\ variant_releases.hasTarballs
                    THEN variant_releases.tarballs
                    ELSE <<>>
         IN  own \o TarballsPerVariant(Tail(variants_list), v)

\* max(tarballs, key=date): the running best is replaced only by a strictly
\* greater key, so the first of several greatest entries is kept
RECURSIVE MaxFrom(_, _)
MaxFrom(best, rest) ==
    IF rest = <<>> THEN best
    ELSE MaxFrom(IF StrLess(best.date, Head(rest).date) THEN Head(rest) ELSE best,
                 Tail(rest))

LatestRelease(tarballs_arch) == MaxFrom(Head(tarballs_arch), Tail(tarballs_arch))

\* line 75: the list comprehension converts every tarball's arch
ArchFilter(tarballs, architecture) ==
    IF \E i \in 1..Len(tarballs) : Architecture(tarballs[i].arch).kind = "raise"
    THEN Raise("ValueError", "is not a valid Architecture")
    ELSE LET Match(t) == Architecture(t.arch).value = architecture
         IN  Ok(SelectSeq(tarballs, Match))

\* mutant: the variants key is never checked
LacksVariants_Unchecked(manifest) == FALSE

\* lines 58-59
LacksVariants(manifest) == ~manifest.hasVariants

GetReleaseTarballInfo(manifest, architecture, variant) ==
    IF LacksVariants(manifest)
    THEN Raise("ValueError", "Malformed manifest")
    ELSE
    LET variants_list == manifest.variants IN
    IF \E i \in 1..Len(variants_list) : Variant(variants_list[i].name).kind = "raise"
    THEN Raise("ValueError", "is not a valid Variant")
    ELSE IF ~\E i \in 1..Len(variants_list) : variants_list[i].name = variant
    THEN None
    ELSE
    LET tarballs_arch == ArchFilter(TarballsPerVariant(variants_list, variant),
                                    architecture) IN
    IF tarballs_arch.kind = "raise" THEN tarballs_arch
    ELSE IF Len(tarballs_arch.value) = 0 THEN None
    ELSE Ok(LatestRelease(tarballs_arch.value))

---------------------------------------------------------------------------
(* The manifests and requests the resolver is applied to *)

Date1 == <<"2", "0", "2", "2", "0", "5", "0", "8">>
Date2 == <<"2", "0", "2", "2", "0", "8", "2", "6">>

\* sha256 of a body of chunks, an injective code of the chunk sequence
RECURSIVE DigestFrom(_, _)
DigestFrom(h, body) ==
    IF body = <<>> THEN h ELSE DigestFrom(h * 3 + Head(body), Tail(body))
Digest(body) == DigestFrom(0, body)

\* the bytes a release publishes: chunks of value 1 or 2
GoodBody == [i \in 1..MaxChunks |-> IF i = MaxChunks THEN 2 ELSE 1]
CorruptBody == [i \in 1..MaxChunks |-> 1]

Entry(a, d) == [arch |-> a, date |-> d, path |-> <<>>, sha256sum |-> Digest(GoodBody)]

Amd64Entries == {Entry("amd64", Date1), Entry("amd64", Date2)}
ManifestEntries ==
    Amd64Entries \cup {Entry("riscv64", Date1), Entry("loongarch64", Date1)}

TarballLists ==
    {<<>>} \cup {<<t>> : t \in ManifestEntries}
           \cup {<<s, t>> : s \in Amd64Entries, t \in Amd64Entries}

GroupNames == {"Base", "BuildKit", "Workstation"}

Groups ==
    [name : GroupNames, hasTarballs : {TRUE}, tarballs : TarballLists]
    \cup [name : GroupNames, hasTarballs : {FALSE}, tarballs : {<<>>}]

\* every tarball gets the path of its place in the manifest
Placed(variants_list) ==
    [g \in 1..Len(variants_list) |->
        [variants_list[g] EXCEPT !.tarballs =
            [i \in 1..Len(variants_list[g].tarballs) |->
                [variants_list[g].tarballs[i] EXCEPT
                    !.path = <<"os", ToString(g), ToString(i)>>]]]]

VariantLists ==
    UNION {[1..n -> Groups] : n \in 0..MaxGroups}

Manifests ==
    {[hasVariants |-> TRUE, variants |-> Placed(vl)] : vl \in VariantLists}
    \cup {[hasVariants |-> FALSE, variants |-> <<>>]}

RequestArchs == {"amd64", "arm64"}
RequestVariants == {"Base", "BuildKit"}

NotCalled == [kind |-> "not called"]

ResolveInit ==
    /\ rManifest \in Manifests
    /\ rArch \in RequestArchs
    /\ rVariant \in RequestVariants
    /\ rResult = NotCalled

CallGetReleaseTarballInfo ==
    /\ rResult = NotCalled
    /\ rResult' = GetReleaseTarballInfo(rManifest, rArch, rVariant)
    /\ UNCHANGED <<rManifest, rArch, rVariant>>


---------------------------------------------------------------------------
(* get_manifest *)

RELEASE_URL_BASE == <<"/", "a", "o", "s", "c", "-", "o", "s", "/">>

RecipePath ==
    <<"/", "m", "a", "n", "i", "f", "e", "s", "t", "/",
      "r", "e", "c", "i", "p", "e", ".", "j", "s", "o", "n">>

\* urlparse(url).scheme: the text before the first ":", lower-cased, when it
\* starts with a letter and holds scheme characters only; "" otherwise
UrlScheme(url) ==
    LET i == Find(":", url) IN
    IF /\ i > 1
       /\ IsAlpha(url[1])
       /\ \A j \in 1..(i - 1) : IsSchemeChar(url[j])
    THEN LowerStr(SubSeq(url, 1, i - 1))
    ELSE <<>>

\* mutant: ftp passes the validation too
AcceptedSchemes_WithFtp ==
    { <<"h", "t", "t", "p">>, <<"h", "t", "t", "p", "s">>, <<"f", "i", "l", "e">>,
      <<"f", "t", "p">> }

\* lines 41-45: the schemes the match statement lets pass
AcceptedSchemes ==
    { <<"h", "t", "t", "p">>, <<"h", "t", "t", "p", "s">>, <<"f", "i", "l", "e">> }

\* The answer of the network to one urlopen + json.load: the fetch fails,
\* the body is no JSON, or it parses to a manifest.
FetchAnswers(manifests) ==
    {Raise("URLError", "urlopen failed"), Raise("JSONDecodeError", "json.load failed")}
    \cup {Ok(m) : m \in manifests}

\* [result, fetched]: what get_manifest returns or raises, and whether it
\* issued the fetch
GetManifest(mirror, answer) ==
    LET manifest_url == mirror \o RELEASE_URL_BASE \o RecipePath IN
    IF UrlScheme(manifest_url) \in AcceptedSchemes
    THEN [result |-> answer, fetched |-> TRUE]
    ELSE [result |-> Raise("ValueError", "Manifest URL is invalid"), fetched |-> FALSE]

Mirrors ==
    { <<"h", "t", "t", "p", ":", "/", "/", "m">>,
      <<"h", "t", "t", "p", "s", ":", "/", "/", "m">>,
      <<"f", "i", "l", "e", ":", "/", "/", "/", "m">>,
      <<"f", "i", "l", "e", ":", "m">>,
      <<"H", "T", "T", "P", ":", "/", "/", "m">>,
      <<"f", "t", "p", ":", "/", "/", "m">>,
      <<"s", "f", "t", "p", ":", "/", "/", "m">>,
      <<"h", "t", "t", "p", "s", "s", ":", "/", "/", "m">>,
      <<"h", "t", "t", "p", "s", "/", "/", "m">>,
      <<"1", "h", "t", "t", "p", ":", "/", "/", "m">>,
      <<":", "/", "/", "m">>,
      <<"m", "a", "l", "f", "o", "r", "m", "e", "d">>,
      <<>> }

\* the manifest of the repository's test: Server/amd64, Base/riscv64 and two
\* Base/amd64 releases
TestTarball(a, d, dir, file) ==
    [arch |-> a, date |-> d, path |-> <<dir, file>>, sha256sum |-> Digest(GoodBody)]

TestManifest ==
    [hasVariants |-> TRUE,
     variants |-> <<
        [name |-> "Server", hasTarballs |-> TRUE,
         tarballs |-> << TestTarball("amd64", Date1, "os-amd64", "server_1_amd64.tar.xz") >>],
        [name |-> "Base", hasTarballs |-> TRUE,
         tarballs |-> << TestTarball("riscv64", Date1, "os-riscv64", "base_1_riscv64.tar.xz"),
                         TestTarball("amd64", Date1, "os-amd64", "base_1_amd64.tar.xz"),
                         TestTarball("amd64", Date2, "os-amd64", "base_2_amd64.tar.xz") >>] >>]

NoVariantsManifest == [hasVariants |-> FALSE, variants |-> <<>>]

\* a manifest that lists a variant the Variant enumeration lacks
NewVariantManifest ==
    [hasVariants |-> TRUE,
     variants |-> TestManifest.variants \o
        << [name |-> "Workstation", hasTarballs |-> TRUE, tarballs |-> <<>>] >>]

ServedManifests == {TestManifest, NoVariantsManifest, NewVariantManifest}

ManifestInit ==
    /\ mCalls = 0
    /\ mMirror = <<>>
    /\ mResult = NotCalled
    /\ mFetches = 0

CallGetManifest ==
    /\ mCalls < MaxCalls
    /\ \E mirror \in Mirrors, answer \in FetchAnswers(ServedManifests) :
          LET r == GetManifest(mirror, answer) IN
          /\ mMirror' = mirror
          /\ mResult' = r.result
          /\ mFetches' = mFetches + (IF r.fetched THEN 1 ELSE 0)
    /\ mCalls' = mCalls + 1

---------------------------------------------------------------------------
(* download_tarball and get_tarball *)

Absent == [kind |-> "absent", data |-> <<>>]
RegularFile(d) == [kind |-> "file", data |-> d]
Directory == [kind |-> "dir", data |-> <<>>]

\* What the network does to one download: the connection fails; or it serves
\* body and the read fails after failAfter chunks (-1: never).
NoConnection == [connect |-> FALSE, body |-> <<>>, failAfter |-> -1]
ShortBody == SubSeq(GoodBody, 1, MaxChunks - 1)
Bodies == {GoodBody, CorruptBody, ShortBody}
NetOutcomes ==
    {NoConnection}
    \cup {n \in [connect : {TRUE}, body : Bodies, failAfter : -1..(MaxChunks - 1)] :
            n.failAfter < Len(n.body)}

\* the sha256sum argument: None, or a hex digest
HexDigest(h) == [kind |-> "str", value |-> h]

\* lines 29-34: the error of a digest mismatch carries both digests
ChecksumError(expected, got) ==
    [kind |-> "raise", exc |-> "RuntimeError",
     msg |-> "Downloaded file has wrong checksum!", expected |-> expected, got |-> got]

\* mutant: the mismatching file is reported but left on disk
VerifyChecksum_NoUnlink(body, sha256sum) ==
    IF sha256sum.kind # "None" /\ Digest(body) # sha256sum.value
    THEN [file |-> RegularFile(body),
          result |-> ChecksumError(sha256sum.value, Digest(body))]
    ELSE [file |-> RegularFile(body), result |-> None]

\* lines 29-31: a finished download whose digest differs is unlinked
VerifyChecksum(body, sha256sum) ==
    IF sha256sum.kind # "None" /\ Digest(body) # sha256sum.value
    THEN [file |-> Absent, result |-> ChecksumError(sha256sum.value, Digest(body))]
    ELSE [file |-> RegularFile(body), result |-> None]

\* lines 15-27: urlopen, then open(dest_file, "wb"), then the read loop; an
\* exception leaves the with block with what was written so far on disk
DownloadTarball(file, sha256sum, net) ==
    IF ~net.connect
    THEN [file |-> file, result |-> Raise("URLError", "urlopen failed")]
    ELSE IF file.kind = "dir"
    THEN [file |-> file, result |-> Raise("IsADirectoryError", "open failed")]
    ELSE IF net.failAfter >= 0
    THEN [file |-> RegularFile(SubSeq(net.body, 1, net.failAfter)),
          result |-> Raise("OSError", "read failed")]
    ELSE VerifyChecksum(net.body, sha256sum)

\* shutil.rmtree(path, ignore_errors=True): removes a directory tree; on a
\* regular file it fails with NotADirectoryError, which is ignored
RmTree(file) == IF file.kind = "dir" THEN Absent ELSE file

\* PosixPath(path).name
Basename(path) == path[Len(path)]

\* line 94
SkipsDownload(file, overwrite) == ~(overwrite \/ file.kind = "absent")

\* [file, result, requests]: the file at dest_dir/basename afterwards, the
\* returned path (Ok) or the exception, and the network requests issued
GetTarball(file, tarball_info, overwrite, net) ==
    IF SkipsDownload(file, overwrite)
    THEN [file |-> file, result |-> Ok(Basename(tarball_info.path)), requests |-> 0]
    ELSE LET d == DownloadTarball(RmTree(file), HexDigest(tarball_info.sha256sum), net) IN
         [file |-> d.file,
          result |-> IF d.result = None THEN Ok(Basename(tarball_info.path)) ELSE d.result,
          requests |-> 1]

StaleBody == <<1>>
InitialFiles == {Absent, RegularFile(GoodBody), RegularFile(StaleBody), Directory}

FetchedTarball == TestManifest.variants[2].tarballs[3]

FetchInit ==
    /\ fCalls = 0
    /\ fPath \in InitialFiles
    /\ fPrev = Absent
    /\ fCall = [fn |-> "none"]
    /\ fResult = NotCalled
    /\ fNet = NoConnection

CallDownloadTarball ==
    /\ fCalls < MaxCalls
    /\ \E sha256sum \in {None, HexDigest(Digest(GoodBody))}, net \in NetOutcomes :
          LET d == DownloadTarball(fPath, sha256sum, net) IN
          /\ fCall' = [fn |-> "download_tarball", sha256sum |-> sha256sum]
          /\ fNet' = net
          /\ fPath' = d.file
          /\ fResult' = d.result
    /\ fPrev' = fPath
    /\ fCalls' = fCalls + 1

CallGetTarball ==
    /\ fCalls < MaxCalls
    /\ \E overwrite \in BOOLEAN, net \in NetOutcomes :
          LET g == GetTarball(fPath, FetchedTarball, overwrite, net) IN
          /\ fCall' = [fn |-> "get_tarball", overwrite |-> overwrite,
                       requests |-> g.requests]
          /\ fNet' = net
          /\ fPath' = g.file
          /\ fResult' = g.result
    /\ fPrev' = fPath
    /\ fCalls' = fCalls + 1


---------------------------------------------------------------------------
(* extract_tarball *)

\* mutant: the emptiness check of the destination is dropped
ExtractRefusal_Merges(tarballFile, extract_dir) ==
    IF tarballFile.kind # "file"
    THEN Raise("ValueError", "Tarball doesn't exist or is not a regular file")
    ELSE IF extract_dir \notin {"empty", "populated"}
    THEN Raise("ValueError", "Destination sysroot is not a directory")
    ELSE None

\* lines 38-44: the sanity checks; the archiver is started only past them
ExtractRefusal(tarballFile, extract_dir) ==
    IF tarballFile.kind # "file"
    THEN Raise("ValueError", "Tarball doesn't exist or is not a regular file")
    ELSE IF extract_dir \notin {"empty", "populated"}
    THEN Raise("ValueError", "Destination sysroot is not a directory")
    ELSE IF extract_dir # "empty"
    THEN Raise("ValueError", "Destination sysroot is not empty. Refusing to overwrite.")
    ELSE None

\* lines 46-59: the exit status of tar
TarStatuses == {0, 2}

\* mutant: the exit status of tar is not tested
ExtractResult_Ignored(result) == None

\* lines 61-62: a non-zero exit status raises OSError
ExtractResult(result) ==
    IF result # 0 THEN Raise("OSError", "tar returned non zero exit status") ELSE None

\* lines 37-62: [dir, result, started]: the destination afterwards, the
\* exception raised (None: a normal return) and whether tar was started. A
\* failing tar leaves the destination as it was or with entries (partial).
ExtractTarball(tarballFile, extract_dir, result, partial) ==
    LET refusal == ExtractRefusal(tarballFile, extract_dir) IN
    IF refusal # None
    THEN [dir |-> extract_dir, result |-> refusal, started |-> FALSE]
    ELSE [dir |-> IF result = 0 \/ partial THEN "populated" ELSE extract_dir,
          result |-> ExtractResult(result),
          started |-> TRUE]

ExtractInit ==
    /\ eCalls = 0
    /\ eTarball \in {Absent, RegularFile(GoodBody), RegularFile(<<>>), Directory}
    /\ eDir \in {"absent", "empty", "populated", "file"}
    /\ eCall = [fn |-> "none"]
    /\ eResult = NotCalled

CallExtractTarball ==
    /\ eCalls < MaxCalls
    /\ \E silent \in BOOLEAN, result \in TarStatuses, partial \in BOOLEAN :
          LET x == ExtractTarball(eTarball, eDir, result, partial) IN
          /\ eCall' = [fn |-> "extract_tarball", silent |-> silent, on |-> eDir,
                       started |-> x.started]
          /\ eDir' = x.dir
          /\ eResult' = x.result
    /\ eCalls' = eCalls + 1
    /\ UNCHANGED eTarball

---------------------------------------------------------------------------
(* do_deploy: the runs of one Sysroot, one after the other *)

\* s.path is absent, an empty directory, a directory with entries, or a
\* regular file
SysrootStates == {"absent", "empty", "populated", "file"}
CacheDirStates == {"absent", "dir", "file"}
StagingDirs == {"cache", "cwd", "tmp"}

SysrootArch == "amd64"
DeployMirrors ==
    { <<"h", "t", "t", "p", ":", "/", "/", "m">>, <<"f", "t", "p", ":", "/", "/", "m">> }
DeployVariants == {"Base", "BuildKit"}

Returned(n) == [kind |-> "returned", value |-> n]
Did(o, dest) == [op |-> o, on |-> dest]

\* line 116: s.path.is_dir() and it holds an entry
NonEmptyDir(dest) == dest = "populated"

\* mutants of the refusal: never refusing; refusing the forced run instead
RefusesOverwrite_Never(dest, force) == FALSE
RefusesOverwrite_Inverted(dest, force) == NonEmptyDir(dest) /\ force

\* lines 116-119
RefusesOverwrite(dest, force) == NonEmptyDir(dest) /\ ~force

\* line 127: s.path.exists()
Exists(dest) == dest # "absent"

\* the exit status of a privileged command
ExitStatuses == {0, 1}

\* lines 123 and 129: if ret != 0
PrivilegedCallFailed(code) == code # 0

DeployInit ==
    /\ sysroot \in SysrootStates
    /\ cacheDir \in CacheDirStates
    /\ files = [d \in StagingDirs |-> Absent]
    /\ tmpDirs = 0
    /\ runs = 0
    /\ pc = "idle"
    /\ args = [mirror |-> <<>>, variant |-> "Base", force |-> FALSE, cache |-> FALSE]
    /\ runManifest = None
    /\ dRet = None
    /\ tarball = None
    /\ downloadPath = "cwd"
    /\ localTarball = None
    /\ status = None
    /\ exc = None
    /\ log = <<>>

\* main(): sys.exit(do_deploy(s, args)) with the parsed arguments
StartDeploy ==
    /\ pc \in {"idle", "done"}
    /\ runs < MaxRuns
    /\ \E mirror \in DeployMirrors, variant \in DeployVariants,
          force \in BOOLEAN, cache \in BOOLEAN :
          args' = [mirror |-> mirror, variant |-> variant, force |-> force, cache |-> cache]
    /\ runs' = runs + 1
    /\ pc' = "resolve"
    /\ runManifest' = None
    /\ dRet' = None
    /\ tarball' = None
    /\ downloadPath' = "cwd"
    /\ localTarball' = None
    /\ status' = None
    /\ exc' = None
    /\ log' = <<>>
    /\ UNCHANGED <<sysroot, cacheDir, files, tmpDirs>>

\* mutant: a resolver answer of None is not acted on
NoTarballFound_Ignored(t) == FALSE

\* line 107: if tarball is None
NoTarballFound(t) == t = None

\* lines 105-109
ResolveManifest ==
    /\ pc = "resolve"
    /\ \E answer \in FetchAnswers(ServedManifests) :
          LET m == GetManifest(args.mirror, answer).result
              t == IF m.kind = "raise" THEN m
                   ELSE GetReleaseTarballInfo(m.value, SysrootArch, args.variant)
          IN  /\ runManifest' = m
              /\ tarball' = IF t.kind = "ok" THEN t.value ELSE None
              /\ exc' = IF t.kind = "raise" THEN t ELSE None
              /\ status' = IF t.kind # "raise" /\ NoTarballFound(t) THEN Returned(1) ELSE None
              /\ pc' = IF t.kind = "raise" \/ NoTarballFound(t) THEN "done" ELSE "check"
    /\ UNCHANGED <<sysroot, cacheDir, files, tmpDirs, runs, args, dRet,
                   downloadPath, localTarball, log>>

\* lines 115-126
CheckDestination ==
    /\ pc = "check"
    /\ \/ /\ RefusesOverwrite(sysroot, args.force)
          /\ status' = Returned(1)
          /\ pc' = "done"
          /\ UNCHANGED <<sysroot, dRet, log>>
       \/ /\ ~RefusesOverwrite(sysroot, args.force)
          /\ NonEmptyDir(sysroot)
          /\ log' = Append(log, Did("rm -rf", sysroot))
          /\ \E code \in ExitStatuses :
                /\ dRet' = Ok(code)
                /\ IF PrivilegedCallFailed(code)
                   THEN /\ sysroot' \in {"populated", "empty"}
                        /\ status' = Returned(2)
                        /\ pc' = "done"
                   ELSE /\ sysroot' = "absent"
                        /\ status' = None
                        /\ pc' = "prepare"
       \/ /\ ~RefusesOverwrite(sysroot, args.force)
          /\ ~NonEmptyDir(sysroot)
          /\ pc' = "prepare"
          /\ UNCHANGED <<sysroot, dRet, status, log>>
    /\ UNCHANGED <<cacheDir, files, tmpDirs, runs, args, runManifest, tarball,
                   downloadPath, localTarball, exc>>

\* lines 127-131
PreparePath ==
    /\ pc = "prepare"
    /\ \/ /\ ~Exists(sysroot)
          /\ log' = Append(log, Did("mkdir -p", sysroot))
          /\ \E code \in ExitStatuses :
                /\ dRet' = Ok(code)
                /\ IF PrivilegedCallFailed(code)
                   THEN /\ status' = Returned(2)
                        /\ pc' = "done"
                        /\ UNCHANGED sysroot
                   ELSE /\ sysroot' = "empty"
                        /\ status' = None
                        /\ pc' = "select"
       \/ /\ Exists(sysroot)
          /\ pc' = "select"
          /\ UNCHANGED <<sysroot, dRet, status, log>>
    /\ UNCHANGED <<cacheDir, files, tmpDirs, runs, args, runManifest, tarball,
                   downloadPath, localTarball, exc>>

\* line 140: CACHE_DIR.mkdir(parents=True, exist_ok=True) on a path that is
\* no directory creates it or fails with an OSError (FileExistsError on a
\* regular file, PermissionError, ...). It never raises RuntimeError, the
\* one exception line 141 handles, so that branch of SelectCacheStrategy is
\* written out below but never taken.
CacheMkdirOutcomes(dir) ==
    IF dir = "absent" THEN {"created", "OSError"} ELSE {"OSError"}

\* lines 133-145
SelectCacheStrategy ==
    /\ pc = "select"
    /\ \/ /\ args.cache
          /\ cacheDir = "dir"
          /\ downloadPath' = "cache"
          /\ pc' = "download"
          /\ UNCHANGED <<cacheDir, files, tmpDirs, args, exc, log>>
       \/ /\ args.cache
          /\ cacheDir # "dir"
          /\ \E outcome \in CacheMkdirOutcomes(cacheDir) :
                \/ /\ outcome = "created"
                   /\ cacheDir' = "dir"
                   /\ downloadPath' = "cwd"
                   /\ pc' = "download"
                   /\ log' = Append(log, Did("mkdir cache", sysroot))
                   /\ UNCHANGED <<files, tmpDirs, args, exc>>
                \/ /\ outcome = "OSError"
                   /\ exc' = Raise("OSError", "CACHE_DIR.mkdir failed")
                   /\ pc' = "done"
                   /\ UNCHANGED <<cacheDir, files, tmpDirs, args, downloadPath, log>>
                \/ /\ outcome = "RuntimeError"
                   /\ args' = [args EXCEPT !.cache = FALSE]
                   /\ downloadPath' = "tmp"
                   /\ files' = [files EXCEPT !["tmp"] = Absent]
                   /\ tmpDirs' = tmpDirs + 1
                   /\ pc' = "download"
                   /\ log' = Append(log, Did("mkdtemp", sysroot))
                   /\ UNCHANGED <<cacheDir, exc>>
       \/ /\ ~args.cache
          /\ downloadPath' = "tmp"
          /\ files' = [files EXCEPT !["tmp"] = Absent]
          /\ tmpDirs' = tmpDirs + 1
          /\ pc' = "download"
          /\ log' = Append(log, Did("mkdtemp", sysroot))
          /\ UNCHANGED <<cacheDir, args, exc>>
    /\ UNCHANGED <<sysroot, runs, runManifest, dRet, tarball, localTarball, status>>

\* line 146: get_tarball(tarball, download_path, args.mirror, overwrite=False)
Download ==
    /\ pc = "download"
    /\ \E net \in NetOutcomes :
          LET g == GetTarball(files[downloadPath], tarball, FALSE, net) IN
          /\ files' = [files EXCEPT ![downloadPath] = g.file]
          /\ log' = Append(log, [op |-> IF g.requests = 0 THEN "reuse" ELSE "download",
                                 on |-> sysroot, file |-> files[downloadPath]])
          /\ IF g.result.kind = "raise"
             THEN /\ exc' = g.result
                  /\ pc' = "done"
                  /\ UNCHANGED localTarball
             ELSE /\ localTarball' = g.result
                  /\ pc' = "extract"
                  /\ UNCHANGED exc
    /\ UNCHANGED <<sysroot, cacheDir, tmpDirs, runs, args, runManifest, dRet, tarball,
                   downloadPath, status>>

\* line 147: extract_tarball(local_tarball, s.path, silent=False)
Extract ==
    /\ pc = "extract"
    /\ LET refusal == ExtractRefusal(files[downloadPath], sysroot) IN
       \/ /\ refusal # None
          /\ exc' = refusal
          /\ pc' = "done"
          /\ UNCHANGED <<sysroot, log>>
       \/ /\ refusal = None
          /\ \E result \in TarStatuses, partial \in BOOLEAN :
                LET x == ExtractTarball(files[downloadPath], sysroot, result, partial) IN
                /\ log' = Append(log, [op |-> "tar", on |-> sysroot, ret |-> result])
                /\ exc' = x.result
                /\ sysroot' = x.dir
                /\ pc' = IF x.result = None THEN "cleanup" ELSE "done"
    /\ UNCHANGED <<cacheDir, files, tmpDirs, runs, args, runManifest, dRet, tarball,
                   downloadPath, localTarball, status>>

\* mutant: the staging directory is never deleted
RemovesStaging_Never(cache) == FALSE

\* line 149: the staging directory is deleted when args.cache is false
RemovesStaging(cache) == ~cache

\* lines 148-151
Cleanup ==
    /\ pc = "cleanup"
    /\ IF RemovesStaging(args.cache)
       THEN /\ files' = [files EXCEPT ![downloadPath] = Absent]
            /\ tmpDirs' = tmpDirs - 1
            /\ log' = Append(log, Did("rmtree staging", sysroot))
       ELSE UNCHANGED <<files, tmpDirs, log>>
    /\ status' = Returned(0)
    /\ pc' = "done"
    /\ UNCHANGED <<sysroot, cacheDir, runs, args, runManifest, dRet, tarball,
                   downloadPath, localTarball, exc>>

---------------------------------------------------------------------------
(* Sysroot.containerize: the namespace spawn and its precondition *)

\* platform.machine() of the host; "s390x" stands for every other name
Machines == {"x86_64", "aarch64", "riscv64", "ppc", "ppc64le", "mips64", "s390x"}

\* common.py lines 43-61: the Architecture of the host, None when the
\* machine name is not listed or is mips64
MatchCurrentArch(machine) ==
    CASE machine = "x86_64" -> Ok("amd64")
      [] machine = "aarch64" -> Ok("arm64")
      [] machine = "riscv64" -> Ok("riscv64")
      [] machine = "ppc" -> Ok("powerpc")
      [] machine = "ppc64le" -> Ok("ppc64el")
      [] machine = "mips64" -> None
      [] OTHER -> None

\* /proc/sys/fs/binfmt_misc/qemu-<arch> of the Sysroot's architecture
BinfmtStates == {"absent", "disabled", "no interpreter", "other interpreter", "registered"}

\* common.py lines 63-85: the interpreter path, None on every failed check
HasQemuProgram(binfmt) ==
    IF binfmt = "absent" THEN None
    ELSE IF binfmt = "disabled" THEN None
    ELSE IF binfmt = "no interpreter" THEN None
    ELSE IF binfmt = "other interpreter" THEN None
    ELSE Ok("path")

\* Architecture.have_qemu(): whether the host has emulation support for the
\* architecture, the registration check of has_qemu_program as a boolean
HaveQemu(binfmt) == HasQemuProgram(binfmt) # None

\* sysroot.py line 84, negated: match_current_arch() is the host's
\* Architecture (any member is true), whatever arch the Sysroot has
PassesArchCheck(arch, machine, binfmt) ==
    ~(MatchCurrentArch(machine) = None /\ ~HaveQemu(binfmt))

\* sysroot.py lines 68-97: [result, spawned]; the result is None without a
\* spawn, else privileged_call's answer with the exit status ret
Containerize(arch, machine, binfmt, ret) ==
    IF ~PassesArchCheck(arch, machine, binfmt)
    THEN [result |-> None, spawned |-> FALSE]
    ELSE [result |-> Ok(ret), spawned |-> TRUE]

\* the exit status of the spawned systemd-nspawn
SpawnStatuses == {0, 1}

ContainerInit ==
    /\ hMachine \in Machines
    /\ hBinfmt \in BinfmtStates
    /\ sArch \in ArchitectureValues
    /\ cCalls = 0
    /\ cCall = [fn |-> "none"]
    /\ cResult = NotCalled

CallContainerize ==
    /\ cCalls < MaxCalls
    /\ \E shell \in BOOLEAN, interactive \in BOOLEAN, ret \in SpawnStatuses :
          LET c == Containerize(sArch, hMachine, hBinfmt, ret) IN
          /\ cCall' = [fn |-> "containerize", shell |-> shell,
                       interactive |-> interactive, spawned |-> c.spawned]
          /\ cResult' = c.result
    /\ cCalls' = cCalls + 1
    /\ UNCHANGED <<hMachine, hBinfmt, sArch>>

---------------------------------------------------------------------------
(* Sysroot.unpack: refresh, optional upgrade, download, force-unpack, cleanup *)

\* the names apt may leave in the download directory
DebFile == <<"a", ".", "d", "e", "b">>
LockFile == <<"l", "o", "c", "k">>
BareName == <<"d", "e", "b">>
PluralName == <<"a", ".", "d", "e", "b", "s">>
FileNames == {DebFile, LockFile, BareName, PluralName}

\* str.endswith
EndsWith(str, suffix) ==
    /\ Len(suffix) <= Len(str)
    /\ \A i \in 1..Len(suffix) : str[Len(str) - Len(suffix) + i] = suffix[i]

\* lines 140-141: the entries of the download directory named *.deb
Debs(listing) == {name \in listing : EndsWith(name, <<".", "d", "e", "b">>)}

\* mutant: the early return on an empty download is never taken
NothingDownloaded_Never(debs) == FALSE

\* line 142: len(debs) == 0
NothingDownloaded(debs) == Cardinality(debs) = 0

\* mutant: no exit status counts as a failure
StepFailed_Never(code) == FALSE

\* lines 123, 138, 157, 162: if ret != 0
StepFailed(code) == code # 0

\* the exit statuses of apt, dpkg and rm
StepStatuses == {0, 100}

\* the requested packages and the update flag
PackageLists == {<<"gcc">>, <<"gcc", "make">>}

Step(name, code) == [step |-> name, ret |-> code]

\* `_, _, ret = self.apt_call(..., containerize=True)`: containerize's None
\* cannot be unpacked into three names
UnpackTriple(answer) ==
    IF answer = None
    THEN Raise("TypeError", "cannot unpack non-iterable NoneType object")
    ELSE answer

\* <path>/var/lib/dpkg of the Sysroot
AdminDirStates == {"absent", "file", "dir"}

\* mutant: the package database is never found missing
AdminDirUnusable_Never(dir) == FALSE

\* line 114: not dpkg_admin_dir.is_dir()
AdminDirUnusable(dir) == dir # "dir"

UnpackInit ==
    /\ uRuns = 0
    /\ uPc = "idle"
    /\ uArgs = [packages |-> <<"gcc">>, update |-> FALSE]
    /\ uAdminDir \in AdminDirStates
    /\ uTemp = "none"
    /\ uTempDirs = 0
    /\ uFiles = {}
    /\ uDebs = {}
    /\ uUnpacked = {}
    /\ uRet = None
    /\ uResult = NotCalled
    /\ uWarnings = 0
    /\ uLog = <<>>

\* line 99
StartUnpack ==
    /\ uPc \in {"idle", "done"}
    /\ uRuns < MaxRuns
    /\ \E packages \in PackageLists, update \in BOOLEAN :
          uArgs' = [packages |-> packages, update |-> update]
    /\ uRuns' = uRuns + 1
    /\ uPc' = "check"
    /\ uTemp' = "none"
    /\ uFiles' = {}
    /\ uDebs' = {}
    /\ uRet' = None
    /\ uResult' = NotCalled
    /\ uWarnings' = 0
    /\ uLog' = <<>>
    /\ UNCHANGED <<uAdminDir, uTempDirs, uUnpacked>>

\* lines 111-115
CheckAdminDir ==
    /\ uPc = "check"
    /\ IF AdminDirUnusable(uAdminDir)
       THEN /\ uResult' = Raise("EnvironmentError", "var/lib/dpkg doesn't exist or is not a directory")
            /\ uPc' = "done"
       ELSE /\ uPc' = "refresh"
            /\ UNCHANGED uResult
    /\ UNCHANGED <<uRuns, uArgs, uAdminDir, uTemp, uTempDirs, uFiles, uDebs, uUnpacked,
                   uRet, uWarnings, uLog>>

\* mutant: the full upgrade is skipped
AfterRefresh_SkipsUpgrade(update) == "download"

\* line 119: if update
AfterRefresh(update) == IF update THEN "upgrade" ELSE "download"

\* lines 117-118: the exit status of apt update is assigned and not tested
Refresh ==
    /\ uPc = "refresh"
    /\ \E code \in StepStatuses :
          LET c == Containerize(sArch, hMachine, hBinfmt, code)
              t == UnpackTriple(c.result)
          IN  /\ uLog' = IF c.spawned THEN Append(uLog, Step("refresh", code)) ELSE uLog
              /\ IF t.kind = "raise"
                 THEN uResult' = t /\ uPc' = "done" /\ UNCHANGED uRet
                 ELSE /\ uRet' = t
                      /\ uPc' = AfterRefresh(uArgs.update)
                      /\ UNCHANGED uResult
    /\ UNCHANGED <<uRuns, uArgs, uAdminDir, uTemp, uTempDirs, uFiles, uDebs, uUnpacked,
                   uWarnings>>

\* lines 119-125
FullUpgrade ==
    /\ uPc = "upgrade"
    /\ \E code \in StepStatuses :
          LET c == Containerize(sArch, hMachine, hBinfmt, code)
              t == UnpackTriple(c.result)
          IN  /\ uLog' = IF c.spawned THEN Append(uLog, Step("full-upgrade", code)) ELSE uLog
              /\ IF t.kind = "raise"
                 THEN uResult' = t /\ uPc' = "done" /\ UNCHANGED uRet
                 ELSE /\ uRet' = t
                      /\ IF StepFailed(code)
                         THEN /\ uResult' = Raise("OSError", "Cannot upgrade in the sysroot")
                              /\ uPc' = "done"
                         ELSE /\ uPc' = "download"
                              /\ UNCHANGED uResult
    /\ UNCHANGED <<uRuns, uArgs, uAdminDir, uTemp, uTempDirs, uFiles, uDebs, uUnpacked,
                   uWarnings>>

\* lines 126-139: the temporary directory is made, then apt downloads
\* into it; apt may leave files whatever its exit status
DownloadPackages ==
    /\ uPc = "download"
    /\ uTemp' = "exists"
    /\ uTempDirs' = uTempDirs + 1
    /\ \E code \in StepStatuses, listing \in SUBSET FileNames :
          LET c == Containerize(sArch, hMachine, hBinfmt, code)
              t == UnpackTriple(c.result)
          IN  /\ uLog' = IF c.spawned THEN Append(uLog, Step("download", code)) ELSE uLog
              /\ uFiles' = IF c.spawned THEN listing ELSE {}
              /\ IF t.kind = "raise"
                 THEN uResult' = t /\ uPc' = "done" /\ UNCHANGED uRet
                 ELSE /\ uRet' = t
                      /\ IF StepFailed(code)
                         THEN /\ uResult' = Raise("OSError", "Cannot retrieve packages from the sysroot")
                              /\ uPc' = "done"
                         ELSE /\ uPc' = "collect"
                              /\ UNCHANGED uResult
    /\ UNCHANGED <<uRuns, uArgs, uAdminDir, uDebs, uUnpacked, uWarnings>>

\* lines 140-146
CollectDebs ==
    /\ uPc = "collect"
    /\ uDebs' = Debs(uFiles)
    /\ IF NothingDownloaded(Debs(uFiles))
       THEN /\ uWarnings' = uWarnings + 2
            /\ uResult' = None
            /\ uPc' = "done"
       ELSE /\ uPc' = "unpack"
            /\ UNCHANGED <<uWarnings, uResult>>
    /\ UNCHANGED <<uRuns, uArgs, uAdminDir, uTemp, uTempDirs, uFiles, uUnpacked, uRet, uLog>>

\* lines 147-158: dpkg --unpack on the host under privilege; a failing dpkg
\* may have unpacked some of the packages
ForceUnpack ==
    /\ uPc = "unpack"
    /\ \E code \in StepStatuses :
          /\ uLog' = Append(uLog, Step("force-unpack", code))
          /\ uRet' = Ok(code)
          /\ IF StepFailed(code)
             THEN /\ uUnpacked' \in {uUnpacked, uUnpacked \cup uDebs}
                  /\ uResult' = Raise("OSError", "Cannot unpack packages into the sysroot")
                  /\ uPc' = "done"
             ELSE /\ uUnpacked' = uUnpacked \cup uDebs
                  /\ uPc' = "cleanup"
                  /\ UNCHANGED uResult
    /\ UNCHANGED <<uRuns, uArgs, uAdminDir, uTemp, uTempDirs, uFiles, uDebs, uWarnings>>

\* lines 159-163, then the end of the function
CleanupDownload ==
    /\ uPc = "cleanup"
    /\ \E code \in StepStatuses :
          /\ uLog' = Append(uLog, Step("cleanup", code))
          /\ uRet' = Ok(code)
          /\ IF StepFailed(code)
             THEN /\ uResult' = Raise("OSError", "Cannot remove temporary download directory")
                  /\ UNCHANGED <<uTemp, uTempDirs, uFiles>>
             ELSE /\ uResult' = None
                  /\ uTemp' = "removed"
                  /\ uTempDirs' = uTempDirs - 1
                  /\ uFiles' = {}
    /\ uPc' = "done"
    /\ UNCHANGED <<uRuns, uArgs, uAdminDir, uDebs, uUnpacked, uWarnings>>

---------------------------------------------------------------------------
(* The specifications *)

ResolveIdle ==
    /\ rManifest = NoVariantsManifest
    /\ rArch = "amd64"
    /\ rVariant = "Base"
    /\ rResult = NotCalled

FetchIdle ==
    /\ fCalls = 0
    /\ fPath = Absent
    /\ fPrev = Absent
    /\ fCall = [fn |-> "none"]
    /\ fResult = NotCalled
    /\ fNet = NoConnection

ExtractIdle ==
    /\ eCalls = 0
    /\ eTarball = Absent
    /\ eDir = "absent"
    /\ eCall = [fn |-> "none"]
    /\ eResult = NotCalled

ContainerIdle ==
    /\ hMachine = "x86_64"
    /\ hBinfmt = "absent"
    /\ sArch = "amd64"
    /\ cCalls = 0
    /\ cCall = [fn |-> "none"]
    /\ cResult = NotCalled

UnpackIdle ==
    /\ UnpackInit
    /\ uAdminDir = "dir"

SysrootIdle == ContainerIdle /\ UnpackIdle

DeployIdle ==
    /\ DeployInit
    /\ sysroot = "absent"
    /\ cacheDir = "absent"

\* the deploy runs
Init == ResolveIdle /\ ManifestInit /\ FetchIdle /\ ExtractIdle /\ DeployInit /\ SysrootIdle

Next ==
    \/ StartDeploy /\ UNCHANGED <<resolveVars, manifestVars, fetchVars, extractVars, sysrootVars>>
    \/ ResolveManifest /\ UNCHANGED <<resolveVars, manifestVars, fetchVars, extractVars, sysrootVars>>
    \/ CheckDestination /\ UNCHANGED <<resolveVars, manifestVars, fetchVars, extractVars, sysrootVars>>
    \/ PreparePath /\ UNCHANGED <<resolveVars, manifestVars, fetchVars, extractVars, sysrootVars>>
    \/ SelectCacheStrategy /\ UNCHANGED <<resolveVars, manifestVars, fetchVars, extractVars, sysrootVars>>
    \/ Download /\ UNCHANGED <<resolveVars, manifestVars, fetchVars, extractVars, sysrootVars>>
    \/ Extract /\ UNCHANGED <<resolveVars, manifestVars, fetchVars, extractVars, sysrootVars>>
    \/ Cleanup /\ UNCHANGED <<resolveVars, manifestVars, fetchVars, extractVars, sysrootVars>>

Spec == Init /\ [][Next]_vars

\* get_release_tarball_info applied to every manifest and request drawn
InitResolve == ResolveInit /\ ManifestInit /\ FetchIdle /\ ExtractIdle /\ DeployIdle /\ SysrootIdle

NextResolve ==
    CallGetReleaseTarballInfo /\ UNCHANGED <<manifestVars, fetchVars, extractVars, deployVars, sysrootVars>>

SpecResolve == InitResolve /\ [][NextResolve]_vars

\* get_manifest called on every mirror string drawn
InitManifest == ResolveIdle /\ ManifestInit /\ FetchIdle /\ ExtractIdle /\ DeployIdle /\ SysrootIdle

NextManifest ==
    CallGetManifest /\ UNCHANGED <<resolveVars, fetchVars, extractVars, deployVars, sysrootVars>>

SpecManifest == InitManifest /\ [][NextManifest]_vars

\* download_tarball and get_tarball called on one destination path
InitFetch == ResolveIdle /\ ManifestInit /\ FetchInit /\ ExtractIdle /\ DeployIdle /\ SysrootIdle

NextFetch ==
    \/ CallDownloadTarball /\ UNCHANGED <<resolveVars, manifestVars, extractVars, deployVars, sysrootVars>>
    \/ CallGetTarball /\ UNCHANGED <<resolveVars, manifestVars, extractVars, deployVars, sysrootVars>>

SpecFetch == InitFetch /\ [][NextFetch]_vars

\* extract_tarball called on one tarball path and one destination
InitExtract == ResolveIdle /\ ManifestInit /\ FetchIdle /\ ExtractInit /\ DeployIdle /\ SysrootIdle

NextExtract ==
    CallExtractTarball /\ UNCHANGED <<resolveVars, manifestVars, fetchVars, deployVars, sysrootVars>>

SpecExtract == InitExtract /\ [][NextExtract]_vars

\* Sysroot.containerize called on every host and every Sysroot architecture
InitContainerize ==
    /\ ResolveIdle /\ ManifestInit /\ FetchIdle /\ ExtractIdle /\ DeployIdle
    /\ ContainerInit /\ UnpackIdle

NextContainerize ==
    CallContainerize /\ UNCHANGED <<resolveVars, manifestVars, fetchVars, extractVars, deployVars,
                                    unpackVars>>

SpecContainerize == InitContainerize /\ [][NextContainerize]_vars

\* Sysroot.unpack called on hosts of a known and of an undetermined
\* architecture, with and without emulation support
InitUnpack ==
    /\ ResolveIdle /\ ManifestInit /\ FetchIdle /\ ExtractIdle /\ DeployIdle
    /\ ContainerInit
    /\ hMachine \in {"x86_64", "mips64"}
    /\ hBinfmt \in {"absent", "registered"}
    /\ sArch \in {"amd64", "arm64"}
    /\ UnpackInit

otherThanUnpack ==
    <<resolveVars, manifestVars, fetchVars, extractVars, deployVars, containerVars>>

NextUnpack ==
    \/ StartUnpack /\ UNCHANGED otherThanUnpack
    \/ CheckAdminDir /\ UNCHANGED otherThanUnpack
    \/ Refresh /\ UNCHANGED otherThanUnpack
    \/ FullUpgrade /\ UNCHANGED otherThanUnpack
    \/ DownloadPackages /\ UNCHANGED otherThanUnpack
    \/ CollectDebs /\ UNCHANGED otherThanUnpack
    \/ ForceUnpack /\ UNCHANGED otherThanUnpack
    \/ CleanupDownload /\ UNCHANGED otherThanUnpack

SpecUnpack == InitUnpack /\ [][NextUnpack]_vars


---------------------------------------------------------------------------
(* The claims *)

LogHas(o) == \E i \in DOMAIN log : log[i].op = o

\* C1: a deploy run that reaches the destination check with a sysroot
\* directory holding an entry and force unset ends there with status 1; it
\* has issued nothing before the check and the step changes neither the
\* sysroot, the cache directory, any staged file nor any staging directory:
\* no deletion, no directory creation, no download, no extraction.
C1_RefusesWithoutForce ==
    [][ (pc = "check" /\ sysroot = "populated" /\ ~args.force) =>
            /\ log = <<>>
            /\ log' = <<>>
            /\ pc' = "done"
            /\ status' = Returned(1)
            /\ exc' = None
            /\ UNCHANGED <<sysroot, cacheDir, files, tmpDirs>> ]_vars

C1_Witness ==
    /\ pc = "done"
    /\ tarball # None
    /\ sysroot = "populated"
    /\ ~args.force
    /\ status = Returned(1)

\* C2: over any sequence of deploy runs, a populated sysroot stops being
\* populated only in the destination check of a forced run, every recursive
\* delete of the sysroot is issued by a forced run, and the archiver is only
\* ever started on a destination that holds no entries.
C2_PopulatedSysrootKept ==
    [][ /\ (sysroot = "populated" /\ sysroot' # "populated") =>
                (args.force /\ pc = "check")
        /\ \A i \in DOMAIN log' :
                /\ log'[i].op = "rm -rf" => args'.force
                /\ log'[i].op = "tar" => log'[i].on = "empty" ]_vars

C2_Witness ==
    /\ runs = MaxRuns
    /\ pc = "done"
    /\ args.force
    /\ LogHas("rm -rf")
    /\ LogHas("tar")
    /\ status = Returned(0)

DownloadTarballCalled == fCall.fn = "download_tarball"

\* the last download read the whole served body and wrote it to the file
StreamCompleted == fNet.connect /\ fNet.failAfter = -1 /\ fPrev.kind # "dir"

\* C3: when download_tarball is given a checksum and the digest of the
\* downloaded bytes differs from it, no file is at the destination after the
\* call and the error raised carries the expected and the computed digest.
C3_MismatchUnlinks ==
    (/\ DownloadTarballCalled
     /\ fCall.sha256sum # None
     /\ StreamCompleted
     /\ Digest(fNet.body) # fCall.sha256sum.value)
    => /\ fPath.kind = "absent"
       /\ fResult.kind = "raise"
       /\ fResult.exc = "RuntimeError"
       /\ "expected" \in DOMAIN fResult
       /\ fResult.expected = fCall.sha256sum.value
       /\ fResult.got = Digest(fNet.body)

C3_Witness ==
    /\ DownloadTarballCalled
    /\ fCall.sha256sum # None
    /\ StreamCompleted
    /\ fNet.body = CorruptBody
    /\ fPrev.kind = "file"
    /\ fPath.kind = "absent"
    /\ fResult.kind = "raise"

\* C4: a call of download_tarball that ends in a failure leaves no file at
\* a destination path that held none before the call.
C4_FailureLeavesNoFile ==
    (DownloadTarballCalled /\ fPrev.kind = "absent" /\ fResult.kind = "raise")
    => fPath.kind = "absent"

\* C5: a file that a deploy run reuses as a cache hit is a complete download
\* whose digest is the descriptor's checksum.
C5_ReusedFileVerified ==
    \A i \in DOMAIN log :
        log[i].op = "reuse" =>
            /\ log[i].file.kind = "file"
            /\ Digest(log[i].file.data) = tarball.sha256sum

Called == rResult # NotCalled

\* the places <<group, index>> of the manifest's tarballs for (a, v)
Matching(m, a, v) ==
    {p \in UNION {{g} \X (1..Len(m.variants[g].tarballs)) : g \in 1..Len(m.variants)} :
        /\ m.variants[p[1]].name = v
        /\ m.variants[p[1]].hasTarballs
        /\ m.variants[p[1]].tarballs[p[2]].arch = a}

EntryAt(m, p) == m.variants[p[1]].tarballs[p[2]]

Before(p, q) == p[1] < q[1] \/ (p[1] = q[1] /\ p[2] <= q[2])

\* C6: for a manifest with a variants list and an (architecture, variant)
\* for which it holds no tarball, get_release_tarball_info returns None,
\* whatever other names the entries carry.
C6_AbsentIsNone ==
    (Called /\ rManifest.hasVariants /\ Matching(rManifest, rArch, rVariant) = {})
    => rResult = None

\* C7: for a manifest and an (architecture, variant) with a matching
\* tarball, get_release_tarball_info returns the matching entry of greatest
\* release date, the first of them in manifest order.
C7_LatestFirst ==
    (Called /\ rManifest.hasVariants /\ Matching(rManifest, rArch, rVariant) # {})
    => /\ rResult.kind = "ok"
       /\ \E p \in Matching(rManifest, rArch, rVariant) :
             /\ rResult.value = EntryAt(rManifest, p)
             /\ \A q \in Matching(rManifest, rArch, rVariant) :
                   /\ ~StrLess(EntryAt(rManifest, p).date, EntryAt(rManifest, q).date)
                   /\ EntryAt(rManifest, q).date = EntryAt(rManifest, p).date
                        => Before(p, q)

StartsWith(s, prefix) ==
    /\ Len(s) >= Len(prefix)
    /\ LowerStr(SubSeq(s, 1, Len(prefix))) = prefix

\* the mirror opens with "http:", "https:" or "file:", in either case
HasAcceptedScheme(mirror) ==
    \/ StartsWith(mirror, <<"h", "t", "t", "p", ":">>)
    \/ StartsWith(mirror, <<"h", "t", "t", "p", "s", ":">>)
    \/ StartsWith(mirror, <<"f", "i", "l", "e", ":">>)

InvalidMirrorURL == Raise("ValueError", "Manifest URL is invalid")

\* C8: a call of get_manifest on a mirror whose scheme is not http, https
\* or file raises the invalid-URL error and issues no fetch; on a mirror of
\* one of these schemes it issues the fetch and does not raise that error.
C8_SchemeValidated ==
    [][ mCalls' = mCalls + 1 =>
            IF HasAcceptedScheme(mMirror')
            THEN mFetches' = mFetches + 1 /\ mResult' # InvalidMirrorURL
            ELSE mFetches' = mFetches /\ mResult' = InvalidMirrorURL ]_vars

C8_Witness ==
    /\ mCalls = 2
    /\ mFetches = 1
    /\ mMirror = <<"f", "t", "p", ":", "/", "/", "m">>
    /\ mResult = InvalidMirrorURL

\* C9: for a manifest without a variants list, get_release_tarball_info
\* raises the malformed-manifest error for every architecture and variant.
C9_NoVariantsRaises ==
    (Called /\ ~rManifest.hasVariants)
    => rResult = Raise("ValueError", "Malformed manifest")

C9_Witness ==
    /\ ~rManifest.hasVariants
    /\ rArch = "arm64"
    /\ rVariant = "BuildKit"
    /\ rResult.kind = "raise"

\* C10: get_tarball with overwrite false on an existing path returns the
\* path with no network request and the file untouched; in every other case
\* what was at the path is removed and a verified download is performed.
C10_HitOrFreshDownload ==
    fCall.fn = "get_tarball" =>
        IF ~fCall.overwrite /\ fPrev.kind # "absent"
        THEN /\ fCall.requests = 0
             /\ fPath = fPrev
             /\ fResult.kind = "ok"
        ELSE /\ fCall.requests = 1
             /\ ~fNet.connect => fPath.kind = "absent"
             /\ fResult.kind = "ok" =>
                    /\ fPath.kind = "file"
                    /\ Digest(fPath.data) = FetchedTarball.sha256sum


\* C11: extract_tarball raises the invalid-input error without starting
\* the archiver whenever the tarball path is absent or no regular file, or
\* the destination is absent, no directory, or holds an entry; the
\* destination is left as it was.
C11_RefusesBadInput ==
    [][ (/\ eCalls' = eCalls + 1
         /\ \/ eTarball.kind # "file"
            \/ eDir \in {"absent", "file", "populated"}) =>
            /\ eResult'.kind = "raise"
            /\ eResult'.exc = "ValueError"
            /\ ~eCall'.started
            /\ eDir' = eDir ]_vars

C11_Witness ==
    /\ eCall.fn = "extract_tarball"
    /\ eTarball.kind = "file"
    /\ eCall.on = "populated"
    /\ eResult.kind = "raise"
    /\ ~eCall.started

\* position of the first entry of the run's log with operation op, 0: none
LogIndex(op) ==
    IF \E i \in 1..Len(log) : log[i].op = op
    THEN CHOOSE i \in 1..Len(log) : log[i].op = op /\ \A j \in 1..(i - 1) : log[j].op # op
    ELSE 0

\* a finished run without cache on a destination that was empty or absent,
\* whose tarball was resolved and downloaded with a matching checksum and
\* whose tar exited 0
CleanDeploy ==
    /\ pc = "done"
    /\ ~args.cache
    /\ log # <<>>
    /\ log[1].on \in {"absent", "empty"}
    /\ ~LogHas("rm -rf")
    /\ LogHas("tar")
    /\ exc = None

\* C12: a run without cache on an empty or absent destination, with a
\* matching tarball, a download matching its checksum and tar exiting 0,
\* resolves, then downloads, then extracts, leaves the destination populated
\* and its staging directory deleted, and returns 0.
C12_CleanDeploySucceeds ==
    CleanDeploy =>
        /\ tarball # None
        /\ 0 < LogIndex("mkdtemp")
        /\ LogIndex("mkdtemp") < LogIndex("download")
        /\ LogIndex("download") < LogIndex("tar")
        /\ LogIndex("tar") < LogIndex("rmtree staging")
        /\ ~LogHas("reuse")
        /\ sysroot = "populated"
        /\ files[downloadPath] = Absent
        /\ tmpDirs < runs
        /\ status = Returned(0)

C12_Witness ==
    /\ CleanDeploy
    /\ log[1] = Did("mkdir -p", "absent")
    /\ status = Returned(0)
    /\ sysroot = "populated"

\* C13: a finished deploy run that created an ephemeral staging directory
\* has deleted it, whether its download and its extraction succeeded or not.
C13_StagingDeleted ==
    (pc = "done" /\ LogHas("mkdtemp")) =>
        /\ LogHas("rmtree staging")
        /\ tmpDirs < runs

\* C14: a finished deploy run has returned a numeric status, whichever step
\* failed.
C14_EndsWithStatus ==
    pc = "done" => status.kind = "returned"

\* the fetched manifest has a variants list and no tarball for the run's
\* (architecture, variant)
NoTarballMatches ==
    /\ runManifest.kind = "ok"
    /\ runManifest.value.hasVariants
    /\ Matching(runManifest.value, SysrootArch, args.variant) = {}

\* the run ended at the destination check, on a directory holding an entry
\* and without force
RefusedAtCheck ==
    /\ tarball # None
    /\ log = <<>>
    /\ NonEmptyDir(sysroot)
    /\ ~args.force

\* C15: a finished deploy run has returned 1 exactly when no tarball of the
\* manifest matches its (architecture, variant) or its destination check
\* found an entry and force unset; it has returned 2 when its privileged
\* rm -rf or mkdir -p exited non-zero; and after returning 1 or 2 it has
\* started neither a download nor an extraction.
C15_StatusOneAndTwo ==
    pc = "done" =>
        /\ (status = Returned(1)) <=> (NoTarballMatches \/ RefusedAtCheck)
        /\ (dRet.kind = "ok" /\ dRet.value # 0) => status = Returned(2)
        /\ status \in {Returned(1), Returned(2)} =>
              ~(LogHas("download") \/ LogHas("reuse") \/ LogHas("tar"))

\* C16: in a run with cache requested, a cache directory that does not
\* exist and is not created by the strategy step makes the run go on to the
\* download with a fresh ephemeral staging directory; the run does not end
\* there.
C16_CacheFailureFallsBack ==
    [][ (/\ pc = "select"
         /\ args.cache
         /\ cacheDir = "absent"
         /\ pc' # "select"
         /\ cacheDir' = "absent") =>
            /\ pc' = "download"
            /\ downloadPath' = "tmp"
            /\ tmpDirs' = tmpDirs + 1 ]_vars

\* C17: in a run with cache requested whose cache directory exists or was
\* created, the download goes to (or is reused from) the cache directory,
\* and the tarball is still there after a run that returned 0.
C17_CacheDirHoldsTarball ==
    (args.cache /\ cacheDir = "dir") =>
        /\ pc \in {"download", "extract", "cleanup"} => downloadPath = "cache"
        /\ (pc = "done" /\ status = Returned(0)) => files["cache"].kind = "file"

\* the host's detected architecture is the Sysroot's
NativelyExecutable == MatchCurrentArch(hMachine) = Ok(sArch)

\* C18: containerize spawns the namespace process only for an architecture
\* the host executes natively or has emulation support for; on a host of
\* another (or undetermined) architecture without emulation support it
\* reports failure and spawns nothing.
C18_SpawnsOnlyWhenExecutable ==
    cCall.fn = "containerize" =>
        /\ cCall.spawned => (NativelyExecutable \/ HaveQemu(hBinfmt))
        /\ ~(NativelyExecutable \/ HaveQemu(hBinfmt)) => cResult = None

\* the place of a step in the order of unpack
StepRank(name) ==
    CASE name = "refresh" -> 1
      [] name = "full-upgrade" -> 2
      [] name = "download" -> 3
      [] name = "force-unpack" -> 4
      [] name = "cleanup" -> 5

\* the error unpack raises for a failed step
StepError(name) ==
    CASE name = "full-upgrade" -> Raise("OSError", "Cannot upgrade in the sysroot")
      [] name = "download" -> Raise("OSError", "Cannot retrieve packages from the sysroot")
      [] name = "force-unpack" -> Raise("OSError", "Cannot unpack packages into the sysroot")
      [] name = "cleanup" -> Raise("OSError", "Cannot remove temporary download directory")

UnpackHas(name) == \E i \in DOMAIN uLog : uLog[i].step = name

\* C19: the steps of an unpack call run in the order refresh, full upgrade
\* (exactly when update is set), download, force-unpack, cleanup; a non-zero
\* exit status of the upgrade, the download, the force-unpack or the cleanup
\* is the last step of the call, which ends with that step's error.
C19_StepsInOrderAbortOnFailure ==
    /\ \A i, j \in DOMAIN uLog : i < j => StepRank(uLog[i].step) < StepRank(uLog[j].step)
    /\ uLog # <<>> => uLog[1].step = "refresh"
    /\ UnpackHas("download") => (UnpackHas("full-upgrade") <=> uArgs.update)
    /\ UnpackHas("cleanup") => UnpackHas("force-unpack")
    /\ UnpackHas("force-unpack") => UnpackHas("download")
    /\ \A i \in DOMAIN uLog :
          (uLog[i].step # "refresh" /\ uLog[i].ret # 0) =>
              /\ i = Len(uLog)
              /\ uPc = "done"
              /\ uResult = StepError(uLog[i].step)

C19_Witness ==
    /\ uPc = "done"
    /\ uArgs.update
    /\ Len(uLog) = 4
    /\ uLog[1].ret # 0
    /\ uLog[4] = Step("force-unpack", 100)
    /\ uResult = StepError("force-unpack")

\* C20: an unpack call whose download exited 0 and left no file named *.deb
\* returns normally after a warning; it runs no force-unpack and no other
\* step after the download.
C20_EmptyDownloadReturns ==
    (/\ \E i \in DOMAIN uLog : uLog[i] = Step("download", 0)
     /\ uPc # "collect"
     /\ uTemp = "exists"
     /\ \A name \in uFiles :
           Len(name) < 4 \/ SubSeq(name, Len(name) - 3, Len(name)) # <<".", "d", "e", "b">>) =>
        /\ uPc = "done"
        /\ uResult = None
        /\ uWarnings > 0
        /\ uLog[Len(uLog)] = Step("download", 0)
        /\ ~UnpackHas("force-unpack")
        /\ ~UnpackHas("cleanup")

C20_Witness ==
    /\ uPc = "done"
    /\ uLog # <<>>
    /\ uLog[Len(uLog)] = Step("download", 0)
    /\ uFiles = {LockFile, BareName, PluralName}
    /\ uResult = None
    /\ uWarnings > 0

\* C21: an unpack call on a Sysroot whose var/lib/dpkg is missing or is no
\* directory ends with EnvironmentError, having spawned no process and made
\* no temporary directory.
C21_MissingAdminDirRaises ==
    (uAdminDir \in {"absent", "file"} /\ uPc \notin {"idle", "check"}) =>
        /\ uPc = "done"
        /\ uResult.kind = "raise"
        /\ uResult.exc = "EnvironmentError"
        /\ uLog = <<>>
        /\ uRet = None
        /\ uTemp = "none"
        /\ uTempDirs = 0

C21_Witness ==
    /\ uAdminDir = "file"
    /\ uPc = "done"
    /\ uResult.kind = "raise"
    /\ uResult.exc = "EnvironmentError"

\* C22: a deploy run whose manifest fetch or resolution raises, or whose
\* manifest holds no matching release, ends at that step: the destination,
\* the cache directory, the staged files and the staging directories are
\* what they were, and nothing was issued.
C22_ResolutionFailsBeforeMutation ==
    [][ (pc = "resolve" /\ (exc'.kind = "raise" \/ tarball' = None)) =>
            /\ pc' = "done"
            /\ sysroot' = sysroot
            /\ cacheDir' = cacheDir
            /\ files' = files
            /\ tmpDirs' = tmpDirs
            /\ log' = <<>> ]_vars

C22_Witness ==
    /\ pc = "done"
    /\ runManifest.kind = "ok"
    /\ tarball = None
    /\ status = Returned(1)
    /\ sysroot = "populated"
    /\ args.force
    /\ log = <<>>

\* C23: whatever exit status the refresh of an unpack call returns, the
\* call goes on to the full upgrade when update is set and to the download
\* otherwise, and has not failed.
C23_RefreshStatusUnchecked ==
    [][ (uPc = "refresh" /\ Len(uLog') = Len(uLog) + 1) =>
            /\ uLog'[Len(uLog')].step = "refresh"
            /\ uRet' = Ok(uLog'[Len(uLog')].ret)
            /\ uPc' = (IF uArgs.update THEN "upgrade" ELSE "download")
            /\ uResult' = NotCalled ]_vars

C23_Witness ==
    /\ uPc = "upgrade"
    /\ uArgs.update
    /\ uLog = <<Step("refresh", 100)>>
    /\ uResult = NotCalled

\* C24: an unpack call that has returned normally has removed the
\* temporary download directory it made.
C24_NormalReturnRemovesTemp ==
    (uPc = "done" /\ uResult = None /\ uTemp # "none") =>
        /\ uTemp = "removed"
        /\ uTempDirs < uRuns

\* C25: when a deploy run selects its staging directory and while it
\* downloads, the destination is a directory without entries; a destination
\* that is not one has ended the run before.
C25_DestinationReadyAtDownload ==
    /\ pc \in {"select", "download"} => sysroot = "empty"
    /\ (LogHas("download") \/ LogHas("reuse")) => \A i \in DOMAIN log : log[i].on # "file"

\* C26: a deploy run that returned 0 has started tar on the destination and
\* tar exited 0; a run whose tar exited non-zero or was never started has
\* not returned 0.
C26_SuccessMeansExtracted ==
    status = Returned(0) =>
        /\ \E i \in DOMAIN log : log[i].op = "tar" /\ log[i].ret = 0 /\ log[i].on = "empty"
        /\ \A i \in DOMAIN log : log[i].op = "tar" => log[i].ret = 0
        /\ exc = None
        /\ sysroot = "populated"

C26_Witness ==
    /\ pc = "done"
    /\ status = Returned(0)
    /\ args.cache
    /\ log # <<>>
    /\ log[Len(log)].op = "tar"

====
